---- MODULE Spec2Model ----
(***************************************************************************)
(* pdf_translator (src/src/main.rs): extraction of a PDF's text with the   *)
(* external pdftotext program, line-by-line translation over HTTP, the     *)
(* output writer, the credential store and the poppler installer.          *)
(*                                                                         *)
(* Text is a sequence of one-character strings; the control characters are *)
(* the tokens LF, CR and FF.                                               *)
(***************************************************************************)
EXTENDS Integers, Sequences, FiniteSets, TLC

VARIABLES
    configFile,        \* the per-user config.toml: Absent or its TOML document
    outFile,           \* translated_text.txt: Absent or its text
    txtFile,           \* the sibling .txt of the input PDF: Absent or its text
    pc,                \* position of the process
    cli,               \* the command line: the flags given
    args,              \* program::Args built by main
    inst,              \* what install::run did
    pdf,               \* what pdftotext was given and did
    reader,            \* PdfReader::new's result and the PdfReader it built
    request,           \* the TranslateInput handed to translate_text
    config,            \* the Config translate_text loaded
    translated_texts,  \* translate_text's accumulator
    inflight,          \* line numbers whose request awaits its response
    reqLog,            \* every request sent, in order
    respLog,           \* every response received, in order
    cursor,            \* lines of the input consumed by translate_text's loop
    outcome,           \* how the process ended
    outFileBefore,     \* translated_text.txt as it was when the process started
    configFileBefore,  \* config.toml as it was when the process started
    loads,             \* the Config::load calls of translate_text: whether each succeeded
    cfgLog             \* the last configuration-store operation

vars == <<configFile, outFile, txtFile, pc, cli, args, inst, pdf, reader, request,
          config, translated_texts, inflight, reqLog, respLog, cursor, outcome,
          outFileBefore, configFileBefore, loads, cfgLog>>

fileVars == <<configFile, outFile, txtFile>>
runVars == <<request, config, translated_texts, inflight, reqLog, respLog, cursor,
             outFileBefore, configFileBefore, loads>>

----------------------------------------------------------------------------
(* Bounds and value sets *)

MaxLen == 3

LF == "LF"
CR == "CR"
FF == "FF"
\* A file: absent, or there with its content.
Absent == [exists |-> FALSE]
File(data) == [exists |-> TRUE, data |-> data]
None == "None"
NoFlag == "NoFlag"

Chars == {"a", LF, CR}

RECURSIVE SeqsUpTo(_, _)
SeqsUpTo(S, n) ==
    IF n = 0 THEN {<<>>}
    ELSE LET shorter == SeqsUpTo(S, n - 1)
         IN  shorter \cup {Append(s, c) : s \in shorter, c \in S}

Texts == SeqsUpTo(Chars, MaxLen)

CredValues == {"", "k1", "k2"}

----------------------------------------------------------------------------
(* config::Config *)

Config_new(api_key, project_id, access_token) ==
    [api_key |-> api_key, project_id |-> project_id, access_token |-> access_token]

Configs == {Config_new(k, p, t) : k \in CredValues, p \in CredValues, t \in CredValues}

ConfigFields == {"api_key", "project_id", "access_token"}

\* toml::to_string of a Config: one key/value line per field, in field order.
toml_to_string(c) ==
    << <<"api_key", c.api_key>>,
       <<"project_id", c.project_id>>,
       <<"access_token", c.access_token>> >>

TomlValue(doc, key) ==
    LET i == CHOOSE i \in DOMAIN doc : doc[i][1] = key IN doc[i][2]

\* toml::from_str::<Config>: every field of the struct must be present, once.
toml_from_str(doc) ==
    IF \A key \in ConfigFields :
          Cardinality({i \in DOMAIN doc : doc[i][1] = key}) = 1
    THEN [ok |-> TRUE,
          val |-> Config_new(TomlValue(doc, "api_key"),
                             TomlValue(doc, "project_id"),
                             TomlValue(doc, "access_token"))]
    ELSE [ok |-> FALSE, val |-> None]

\* A file that is not a Config document (here: an empty file).
MalformedToml == <<>>

\* Config::load on the file `file`, pathOk: get_config_path succeeded.
load(file, pathOk) ==
    IF ~pathOk \/ ~file.exists
    THEN [ok |-> FALSE, val |-> None]
    ELSE toml_from_str(file.data)

MergeFieldNoKeep(cand, prev) == cand

MergeFieldPrevWins(cand, prev) == IF prev # "" THEN prev ELSE cand

\* One field of Config::save: the previous value is kept for an empty candidate.
MergeField(cand, prev) ==
    IF cand = "" /\ prev # "" THEN prev ELSE cand

\* Config::save of candidate `self` onto `file`. pathOk: get_config_path
\* succeeded; writeOk: fs::write succeeded.
save(self, file, pathOk, writeOk) ==
    LET prev_conf == load(file, pathOk)
        prev == IF prev_conf.ok THEN prev_conf.val ELSE Config_new("", "", "")
        merged == Config_new(MergeField(self.api_key, prev.api_key),
                             MergeField(self.project_id, prev.project_id),
                             MergeField(self.access_token, prev.access_token))
    IN  IF ~pathOk THEN [ok |-> FALSE, file |-> file, self |-> self]
        ELSE IF ~writeOk THEN [ok |-> FALSE, file |-> file, self |-> merged]
        ELSE [ok |-> TRUE, file |-> File(toml_to_string(merged)), self |-> merged]

SetupRejectsNone(a) == FALSE

\* config::setup's guard: nothing to save.
SetupRejects(a) ==
    a.api_key = "" /\ a.project_id = "" /\ a.access_token = ""

NoCfgLog == [op |-> "none"]

\* Config::save called directly (as config::tests::test_save_config does).
ConfigSave ==
    /\ pc = "config"
    /\ \E cand \in Configs, pathOk \in BOOLEAN, writeOk \in BOOLEAN :
          LET r == save(cand, configFile, pathOk, writeOk)
          IN  /\ configFile' = r.file
              /\ cfgLog' = [op |-> "save", cand |-> cand, before |-> configFile,
                            fsOk |-> pathOk /\ writeOk,
                            result |-> IF r.ok THEN "Ok" ELSE "Err"]
    /\ UNCHANGED <<outFile, txtFile, pc, cli, args, inst, pdf, reader, outcome>>
    /\ UNCHANGED runVars

\* main with --config: Config::new from the flags, then config::setup.
ConfigSetup ==
    /\ pc = "config"
    /\ \E cand \in Configs, pathOk \in BOOLEAN, writeOk \in BOOLEAN :
          IF SetupRejects(cand)
          THEN /\ configFile' = configFile
               /\ cfgLog' = [op |-> "setup", cand |-> cand, before |-> configFile,
                             fsOk |-> TRUE, result |-> "rejected"]
          ELSE LET r == save(cand, configFile, pathOk, writeOk)
               IN  /\ configFile' = r.file
                   /\ cfgLog' = [op |-> "setup", cand |-> cand, before |-> configFile,
                                 fsOk |-> pathOk /\ writeOk,
                                 result |-> IF r.ok THEN "Ok" ELSE "panic"]
    /\ UNCHANGED <<outFile, txtFile, pc, cli, args, inst, pdf, reader, outcome>>
    /\ UNCHANGED runVars

----------------------------------------------------------------------------
(* Text *)

Digit(d) == <<"0", "1", "2", "3", "4", "5", "6", "7", "8", "9">>[d + 1]

\* Display of a usize: its decimal digits.
RECURSIVE ToDecimal(_)
ToDecimal(n) ==
    IF n < 10 THEN <<Digit(n)>> ELSE ToDecimal(n \div 10) \o <<Digit(n % 10)>>

\* Position of the first LF of s, 0 when it has none.
FirstLF(s) ==
    IF \E i \in DOMAIN s : s[i] = LF
    THEN CHOOSE i \in DOMAIN s : s[i] = LF /\ \A j \in 1..(i - 1) : s[j] # LF
    ELSE 0

\* A line cut at its LF loses a CR that stood right before the LF.
StripCR(l) ==
    IF Len(l) > 0 /\ l[Len(l)] = CR THEN SubSeq(l, 1, Len(l) - 1) ELSE l

RECURSIVE LinesSkipBlank(_)
LinesSkipBlank(s) ==
    IF s = <<>> THEN <<>>
    ELSE LET i == FirstLF(s)
         IN  IF i = 0 THEN <<s>>
             ELSE (IF i = 1 THEN <<>> ELSE <<StripCR(SubSeq(s, 1, i - 1))>>)
                  \o LinesSkipBlank(SubSeq(s, i + 1, Len(s)))

\* str::lines: the text split at LF or CR LF; the last line needs no line ending,
\* and a text that ends with a line ending has no empty last line.
RECURSIVE Lines(_)
Lines(s) ==
    IF s = <<>> THEN <<>>
    ELSE LET i == FirstLF(s)
         IN  IF i = 0 THEN <<s>>
             ELSE <<StripCR(SubSeq(s, 1, i - 1))>> \o Lines(SubSeq(s, i + 1, Len(s)))

EnumerateFromOne(ls) == [i \in DOMAIN ls |-> <<i, ls[i]>>]

\* Iterator::enumerate: each item with its zero-based position.
Enumerate(ls) == [i \in DOMAIN ls |-> <<i - 1, ls[i]>>]

----------------------------------------------------------------------------
(* pdf_reader *)

\* PdfReader::read_file_with_formatting. ioOk: the file opens and is UTF-8.
read_file_with_formatting(file, ioOk) ==
    IF ~file.exists \/ ~ioOk
    THEN [ok |-> FALSE, val |-> <<>>]
    ELSE [ok |-> TRUE, val |-> Enumerate(Lines(file.data))]

\* PdfReader::get_content: a clone of the stored content.
get_content(self) == self.content

RECURSIVE Flatten(_)
Flatten(ss) == IF ss = <<>> THEN <<>> ELSE Head(ss) \o Flatten(Tail(ss))

\* What `pdftotext <pdf> -layout` writes to the sibling .txt for a PDF given as
\* its pages, each a sequence of lines: every line ends with LF, every page
\* with FF (the text pdf_reader::tests::test_read_basic_pdf expects).
PageText(page) == Flatten([i \in DOMAIN page |-> page[i] \o <<LF>>]) \o <<FF>>
PdfToText(doc) == Flatten([i \in DOMAIN doc |-> PageText(doc[i])])

PdfLineTexts == {<<"a">>, <<"b", "a">>}

\* The PDFs given to the program: one page of one or two lines, two pages of one
\* line, and a page with no text.
OneLinePdfs == {<< <<s>> >> : s \in PdfLineTexts}
PDFs ==
    OneLinePdfs
      \cup {<< <<s, t>> >> : s \in PdfLineTexts, t \in PdfLineTexts}
      \cup {<< <<s>>, <<t>> >> : s \in PdfLineTexts, t \in PdfLineTexts}
      \cup {<< <<>> >>}

----------------------------------------------------------------------------
(* translator *)

\* serde_json::Value
JNull == [t |-> "null"]
JStr(s) == [t |-> "str", s |-> s]
JNum(n) == [t |-> "num", n |-> n]
JArr(a) == [t |-> "arr", a |-> a]
JObj(o) == [t |-> "obj", o |-> o]

\* Value's Index: v[key] and v[i]; Null for anything that is not there.
JGet(v, key) == IF v.t = "obj" /\ key \in DOMAIN v.o THEN v.o[key] ELSE JNull
JAt(v, i) == IF v.t = "arr" /\ (i + 1) \in DOMAIN v.a THEN v.a[i + 1] ELSE JNull

\* Value::as_str
as_str(v) == IF v.t = "str" THEN [some |-> TRUE, val |-> v.s] ELSE [some |-> FALSE]

unwrap_or_default(o) == IF o.some THEN o.val ELSE <<>>

parse_response_null_text(v) ==
    LET f == JGet(JAt(JGet(JGet(v, "data"), "translations"), 0), "translatedText")
    IN  IF as_str(f).some THEN as_str(f).val ELSE <<"n", "u", "l", "l">>

\* translator::parse_response of the response body's Value (the body is given
\* to it re-serialised, and parsed back).
parse_response(v) ==
    unwrap_or_default(
        as_str(JGet(JAt(JGet(JGet(v, "data"), "translations"), 0), "translatedText")))

\* What the translation endpoint may answer to one request.
TrTexts == {<<"x">>, <<"y", "z">>}
Translated(text) ==
    JObj([data |-> JObj([translations |->
              JArr(<< JObj([translatedText |-> JStr(text)]) >>)])])
ErrorBody == JObj([error |-> JObj([code |-> JNum(403)])])
NoTranslations == JObj([data |-> JObj([translations |-> JArr(<<>>)])])
NumberText ==
    JObj([data |-> JObj([translations |->
              JArr(<< JObj([translatedText |-> JNum(7)]) >>)])])
SendError == [t |-> "send_error"]
BodyError == [t |-> "body_error"]
JsonBodies ==
    {Translated(text) : text \in TrTexts} \cup {ErrorBody, NoTranslations, NumberText}
NetErrors == {SendError, BodyError}
Responses == JsonBodies \cup NetErrors

BuildRequestAnonymous(line_number, line, input, conf) ==
    [line_number |-> line_number,
     q |-> line, source |-> input.source, target |-> input.target,
     format |-> "text", key |-> "",
     Authorization |-> <<"Bearer ", conf.access_token>>,
     project |-> conf.project_id]

\* The request of one line: the JSON payload and the three headers.
BuildRequest(line_number, line, input, conf) ==
    [line_number |-> line_number,
     q |-> line, source |-> input.source, target |-> input.target,
     format |-> "text", key |-> conf.api_key,
     Authorization |-> <<"Bearer ", conf.access_token>>,
     project |-> conf.project_id]

PushFront(acc, line_number, text) == <<<<line_number, text>>>> \o acc

\* translated_texts.push((line_number, translated_line))
Push(acc, line_number, text) == Append(acc, <<line_number, text>>)

----------------------------------------------------------------------------
(* program *)

\* writeln!(file, "{}: {}", line_number, line)
FormatLine(line_number, line) == ToDecimal(line_number) \o <<":", " ">> \o line \o <<LF>>

\* The text program::run writes for the translated content.
WriteAll(translated_content) ==
    Flatten([i \in DOMAIN translated_content |->
                FormatLine(translated_content[i][1], translated_content[i][2])])

----------------------------------------------------------------------------
(* The process: main, program::run, PdfReader::new, install::run (Linux) *)

NoInst == [probe |-> "none", result |-> "none", error |-> "", probes |-> <<>>,
           manager |-> "", prompted |-> FALSE, installed |-> FALSE]
NoPdf == [status |-> "none", doc |-> None]
NoReader == [result |-> "none", read |-> "none", content |-> <<>>]

\* Args::parse: the defaults of --source and --target.
clap_parse(c) ==
    [source |-> IF c.source = NoFlag THEN "en" ELSE c.source,
     target |-> IF c.target = NoFlag THEN "sv" ELSE c.target]

\* main's last branch: the program::Args it builds from the parsed flags.
run_args(a) == [file_path |-> "path", source |-> "en", target |-> "sv"]

Panic ==
    /\ pc' = "done"
    /\ outcome' = "panic"

\* main without --install, --list or --config: program::run is entered, and
\* PdfReader::new in it.
Main ==
    /\ pc = "main"
    /\ args' = run_args(clap_parse(cli))
    /\ pc' = "install_check"
    /\ UNCHANGED <<inst, pdf, reader, outcome, cli, cfgLog>>
    /\ UNCHANGED fileVars
    /\ UNCHANGED runVars

VersionProbes == {"spawn_error", "other", "poppler"}

\* check_poppler's decision on the outcome of `pdftotext -v`: "other" is a
\* diagnostic output that does not contain "Poppler".
check_poppler(probe) ==
    CASE probe = "poppler" -> "Ok"
      [] probe = "other" -> "Err"
      [] probe = "spawn_error" -> "install"

CheckError == "Error occured while checking if poppler is installed."
NoManagerError == "No package manager is installed"

AfterInstallGated(result) == IF result = "Err" THEN "new_done" ELSE "read_pdf"

\* PdfReader::new: where it goes on when install::run has returned `result`,
\* which it drops.
AfterInstall(result) == "read_pdf"

\* install::run: check_poppler up to the version probe's outcome.
InstallCheck ==
    /\ pc = "install_check"
    /\ \E probe \in VersionProbes :
          LET d == check_poppler(probe)
          IN  /\ inst' = [inst EXCEPT !.probe = probe,
                                      !.result = IF d = "install" THEN "none" ELSE d,
                                      !.error = IF d = "Err" THEN CheckError ELSE ""]
              /\ pc' = IF d = "install" THEN "install_which" ELSE AfterInstall(d)
    /\ UNCHANGED <<args, pdf, reader, outcome, cli, cfgLog>>
    /\ UNCHANGED fileVars
    /\ UNCHANGED runVars

package_managers_yum_first == <<"yum", "apt", "pacman">>

package_managers == <<"apt", "yum", "pacman">>

\* One `which <manager>` of get_package_manager and its answer.
Probed(manager, answer) == [manager |-> manager, answer |-> answer]

\* install: one iteration of get_package_manager's loop, and what follows the
\* loop when it ends without a manager.
InstallWhich ==
    /\ pc = "install_which"
    /\ LET manager == package_managers[Len(inst.probes) + 1]
       IN  \/ \* `which` itself cannot be run
              /\ inst' = [inst EXCEPT
                            !.probes = Append(@, Probed(manager, "no_which"))]
              /\ Panic
           \/ \* status.success()
              /\ inst' = [inst EXCEPT
                            !.probes = Append(@, Probed(manager, "found")),
                            !.manager = manager]
              /\ pc' = "install_prompt"
              /\ UNCHANGED outcome
           \/ \* not found
              /\ LET probed == Append(inst.probes, Probed(manager, "not_found"))
                 IN  IF Len(probed) < Len(package_managers)
                     THEN /\ inst' = [inst EXCEPT !.probes = probed]
                          /\ pc' = "install_which"
                     ELSE /\ inst' = [inst EXCEPT !.probes = probed,
                                                  !.result = "Err",
                                                  !.error = NoManagerError]
                          /\ pc' = AfterInstall("Err")
              /\ UNCHANGED outcome
    /\ UNCHANGED <<args, pdf, reader, cli, cfgLog>>
    /\ UNCHANGED fileVars
    /\ UNCHANGED runVars

\* install: the sudo password prompt.
InstallPrompt ==
    /\ pc = "install_prompt"
    /\ \/ /\ inst' = [inst EXCEPT !.prompted = TRUE]
          /\ pc' = "install_spawn"
          /\ UNCHANGED outcome
       \/ \* read_password fails
          /\ inst' = [inst EXCEPT !.prompted = TRUE]
          /\ Panic
    /\ UNCHANGED <<args, pdf, reader, cli, cfgLog>>
    /\ UNCHANGED fileVars
    /\ UNCHANGED runVars

\* install: the package manager's install command is spawned.
InstallSpawn ==
    /\ pc = "install_spawn"
    /\ \/ /\ inst' = [inst EXCEPT !.installed = TRUE, !.result = "Ok"]
          /\ pc' = AfterInstall("Ok")
          /\ UNCHANGED outcome
       \/ \* sh cannot be spawned
          /\ UNCHANGED inst
          /\ Panic
    /\ UNCHANGED <<args, pdf, reader, cli, cfgLog>>
    /\ UNCHANGED fileVars
    /\ UNCHANGED runVars

PdftotextRuns == {"spawn_error", "not_utf8", "failed", "converted"}

\* PdfReader::read_pdf's result for a run of pdftotext: the program cannot be
\* spawned, its stdout is not UTF-8, it exits without converting, it converts.
read_pdf(run) ==
    CASE run = "spawn_error" -> "Err"
      [] run = "not_utf8" -> "panic"
      [] OTHER -> "Ok"

\* PdfReader::new: read_pdf. pdftotext writes the sibling .txt when it converts
\* and leaves it as it was otherwise (its exit status is not looked at).
ReadPdf ==
    /\ pc = "read_pdf"
    /\ \E run \in PdftotextRuns :
        \E doc \in IF run = "converted" THEN PDFs ELSE {None} :
          /\ pdf' = [status |-> run, doc |-> doc]
          /\ txtFile' = IF run = "converted" THEN File(PdfToText(doc)) ELSE txtFile
          /\ LET r == read_pdf(run)
             IN  /\ reader' = IF r = "Err" THEN [reader EXCEPT !.result = "Err"] ELSE reader
                 /\ pc' = CASE r = "Ok" -> "read_file"
                            [] r = "Err" -> "new_done"
                            [] r = "panic" -> "done"
                 /\ outcome' = IF r = "panic" THEN "panic" ELSE outcome
    /\ UNCHANGED <<args, inst, cli, cfgLog, configFile, outFile>>
    /\ UNCHANGED runVars

\* PdfReader::new: the sibling .txt is read and the PdfReader built.
ReadFile ==
    /\ pc = "read_file"
    /\ \E ioOk \in BOOLEAN :
          LET r == read_file_with_formatting(txtFile, ioOk)
          IN  reader' = [result |-> IF r.ok THEN "Ok" ELSE "Err",
                         read |-> IF r.ok THEN "ok" ELSE "failed",
                         content |-> r.val]
    /\ pc' = "new_done"
    /\ UNCHANGED <<args, inst, pdf, outcome, cli, cfgLog>>
    /\ UNCHANGED fileVars
    /\ UNCHANGED runVars

\* program::run from PdfReader::new's return to the call of translate_text.
RunRequest ==
    /\ pc = "new_done"
    /\ IF reader.result = "Err"
       THEN /\ Panic
            /\ UNCHANGED <<args, request>>
       ELSE LET a == [args EXCEPT
                        !.source = IF args.source = "" THEN "en" ELSE args.source,
                        !.target = IF args.target = "" THEN "sv" ELSE args.target]
            IN  /\ args' = a
                /\ request' = [formatted_content |-> get_content(reader),
                               source |-> a.source, target |-> a.target]
                /\ pc' = "translate_load"
                /\ UNCHANGED outcome
    /\ UNCHANGED <<inst, pdf, reader, cli, cfgLog>>
    /\ UNCHANGED fileVars
    /\ UNCHANGED <<config, translated_texts, inflight, reqLog, respLog, cursor,
                   outFileBefore, configFileBefore, loads>>

\* translate_text up to its loop: the configuration is loaded.
TranslateLoad ==
    /\ pc = "translate_load"
    /\ \E pathOk \in BOOLEAN :
          LET r == load(configFile, pathOk)
          IN  /\ loads' = Append(loads, r.ok)
              /\ IF r.ok
                    THEN /\ config' = r.val
                         /\ pc' = "loop"
                         /\ UNCHANGED outcome
                    ELSE /\ Panic
                         /\ UNCHANGED config
    /\ UNCHANGED <<args, inst, pdf, reader, cli, cfgLog>>
    /\ UNCHANGED fileVars
    /\ UNCHANGED <<request, translated_texts, inflight, reqLog, respLog, cursor,
                   outFileBefore, configFileBefore>>

CanSendWithoutWaiting ==
    /\ pc \in {"loop", "await"}
    /\ cursor < Len(request.formatted_content)

\* The loop of translate_text is at its head, with a line left.
CanSend ==
    /\ pc = "loop"
    /\ cursor < Len(request.formatted_content)

\* translate_text: the request of the next line is sent.
SendRequest ==
    /\ CanSend
    /\ LET item == request.formatted_content[cursor + 1]
       IN  /\ reqLog' = Append(reqLog, BuildRequest(item[1], item[2], request, config))
           /\ inflight' = inflight \cup {item[1]}
    /\ cursor' = cursor + 1
    /\ pc' = "await"
    /\ UNCHANGED <<args, inst, pdf, reader, outcome, cli, cfgLog>>
    /\ UNCHANGED fileVars
    /\ UNCHANGED <<request, config, translated_texts, respLog, outFileBefore,
                   configFileBefore, loads>>

FlushOnError(file, partial) == File(WriteAll(partial))

\* program::run's Err arm: what becomes of the output file and of the
\* translations obtained so far.
OnError(file, partial) == file

\* translate_text: the response of the outstanding request arrives; a network
\* error ends translate_text and program::run.
RecvResponse ==
    /\ pc = "await"
    /\ \E resp \in Responses :
          LET item == request.formatted_content[cursor]
          IN  /\ respLog' = Append(respLog, resp)
              /\ inflight' = inflight \ {item[1]}
              /\ IF resp \in NetErrors
                 THEN /\ outFile' = OnError(outFile, translated_texts)
                      /\ translated_texts' = <<>>
                      /\ pc' = "done"
                      /\ outcome' = "translate_error"
                 ELSE /\ translated_texts' =
                            Push(translated_texts, item[1], parse_response(resp))
                      /\ pc' = "loop"
                      /\ UNCHANGED <<outFile, outcome>>
    /\ UNCHANGED <<args, inst, pdf, reader, cli, cfgLog, configFile, txtFile>>
    /\ UNCHANGED <<request, config, reqLog, cursor, outFileBefore, configFileBefore,
                   loads>>

\* translate_text returns Ok and program::run writes the output file.
RunWrite ==
    /\ pc = "loop"
    /\ cursor = Len(request.formatted_content)
    /\ \/ /\ outFile' = File(WriteAll(translated_texts))
          /\ pc' = "done"
          /\ outcome' = "complete"
       \/ \* File::create fails
          /\ UNCHANGED outFile
          /\ Panic
    /\ UNCHANGED <<args, inst, pdf, reader, cli, cfgLog, configFile, txtFile>>
    /\ UNCHANGED runVars

InitProcess ==
    /\ args = None
    /\ inst = NoInst
    /\ pdf = NoPdf
    /\ reader = NoReader
    /\ request = None
    /\ config = None
    /\ translated_texts = <<>>
    /\ inflight = {}
    /\ reqLog = <<>>
    /\ respLog = <<>>
    /\ cursor = 0
    /\ loads = <<>>
    /\ outcome = "running"

InitConfig ==
    /\ configFile \in {Absent, File(MalformedToml)}
    /\ outFile = Absent
    /\ outFileBefore = Absent
    /\ configFileBefore = configFile
    /\ txtFile = Absent
    /\ pc = "config"
    /\ cli = None
    /\ cfgLog = NoCfgLog
    /\ InitProcess

NextConfig == ConfigSave \/ ConfigSetup

SpecConfig == InitConfig /\ [][NextConfig]_vars

Flags == [source : {NoFlag, "fr"}, target : {NoFlag, "de"}]

StoredConfig == Config_new("key", "proj", "tok")

OldOutput == <<"7", ":", " ", "o", LF>>

Init ==
    /\ configFile \in {Absent, File(MalformedToml), File(toml_to_string(StoredConfig))}
    /\ outFile \in {Absent, File(OldOutput)}
    /\ outFileBefore = outFile
    /\ configFileBefore = configFile
    /\ txtFile \in {Absent} \cup {File(t) : t \in Texts}
    /\ pc = "main"
    /\ cli \in Flags
    /\ cfgLog = NoCfgLog
    /\ InitProcess

Next ==
    \/ Main
    \/ InstallCheck
    \/ InstallWhich
    \/ InstallPrompt
    \/ InstallSpawn
    \/ ReadPdf
    \/ ReadFile
    \/ RunRequest
    \/ TranslateLoad
    \/ SendRequest
    \/ RecvResponse
    \/ RunWrite

Spec == Init /\ [][Next]_vars

----------------------------------------------------------------------------
(* Properties of the configuration store (SpecConfig) *)

\* What Config::load reads from a file.
Stored(file) == load(file, TRUE)

Saved == cfgLog.op \in {"save", "setup"}

\* C2: over any sequence of saves, a credential field that is non-empty in the
\* stored configuration is never replaced by an empty string: after each save
\* it is still non-empty, and it changed only to a non-empty value of the
\* candidate.
C2_NonEmptyCredentialNeverEmptied ==
    Saved =>
        LET before == Stored(cfgLog.before)
            after == Stored(configFile)
        IN  before.ok =>
              \A f \in ConfigFields :
                 before.val[f] # "" =>
                    /\ after.ok
                    /\ after.val[f] # ""
                    /\ after.val[f] # before.val[f] =>
                          /\ cfgLog.cand[f] # ""
                          /\ after.val[f] = cfgLog.cand[f]

\* C2 witness: a save with an empty api key on a stored non-empty api key, which
\* changes another field.
C2_Witness ==
    /\ cfgLog.op = "save"
    /\ cfgLog.result = "Ok"
    /\ Stored(cfgLog.before).ok
    /\ Stored(cfgLog.before).val.api_key # ""
    /\ cfgLog.cand.api_key = ""
    /\ cfgLog.cand.project_id # ""
    /\ Stored(cfgLog.before).val.project_id # cfgLog.cand.project_id

\* C3: save merges field by field: the stored value after a save is the
\* previous stored value when the candidate's field is empty and there is a
\* previous configuration, the candidate's value otherwise; a candidate with
\* only the access token, saved onto api key and project id, leaves all three
\* populated; a candidate with three non-empty fields is saved as it is.
C3_SaveMergesFieldByField ==
    /\ (Saved /\ cfgLog.result = "Ok") =>
          LET before == Stored(cfgLog.before)
              after == Stored(configFile)
          IN  /\ after.ok
              /\ \A f \in ConfigFields :
                    after.val[f] = IF cfgLog.cand[f] = "" /\ before.ok
                                   THEN before.val[f]
                                   ELSE cfgLog.cand[f]
    /\ (cfgLog.op = "save" /\ cfgLog.fsOk /\ \A f \in ConfigFields : cfgLog.cand[f] # "") =>
          /\ cfgLog.result = "Ok"
          /\ Stored(configFile).ok
          /\ Stored(configFile).val = cfgLog.cand

\* C3 witness: only the access token saved onto a record with api key and
\* project id; all three are stored.
C3_Witness ==
    /\ cfgLog.op = "save"
    /\ cfgLog.result = "Ok"
    /\ Stored(cfgLog.before).ok
    /\ Stored(cfgLog.before).val = Config_new("k1", "k2", "")
    /\ cfgLog.cand = Config_new("", "", "k1")
    /\ Stored(configFile).val = Config_new("k1", "k2", "k1")

\* C4: config::setup with an all-empty candidate is rejected: save is not
\* called and the configuration file is as it was, absent or not.
C4_EmptySetupRejected ==
    (cfgLog.op = "setup" /\ cfgLog.cand = Config_new("", "", "")) =>
        /\ cfgLog.result = "rejected"
        /\ configFile = cfgLog.before

\* C4 witness: an all-empty setup on a stored configuration.
C4_Witness ==
    /\ cfgLog.op = "setup"
    /\ cfgLog.cand = Config_new("", "", "")
    /\ cfgLog.before.exists
    /\ Stored(cfgLog.before).ok

----------------------------------------------------------------------------
(* Properties of a translation run (Spec) *)

\* The Document the Extractor produced.
Document == reader.content

\* The translation obtained for the k-th line (k from 1).
TranslationOf(k) == parse_response(respLog[k])

NoCallFailed == \A i \in DOMAIN respLog : respLog[i] \notin NetErrors

\* C1: a run over a Document of N lines whose translation calls all succeed
\* ends with translated_text.txt holding exactly N lines, the k-th being
\* "<k>: <translation of the k-th input line>", in original order, and nothing
\* of the file's earlier content. (A run that panics, on the configuration or on
\* File::create, has not run to its end.)
C1_OutputHasEveryLineInOrder ==
    (pc = "done" /\ outcome # "panic" /\ NoCallFailed) =>
        /\ outcome = "complete"
        /\ outFile.exists
        /\ Len(respLog) = Len(Document)
        /\ Len(Lines(outFile.data)) = Len(Document)
        /\ \A k \in DOMAIN Document :
              /\ Document[k][1] = k - 1
              /\ reqLog[k].q = Document[k][2]
              /\ Lines(outFile.data)[k] =
                    ToDecimal(k - 1) \o <<":", " ">> \o TranslationOf(k)

\* C1 witness: a completed run over at least two lines with different
\* translations, over an output file of an earlier run.
C1_Witness ==
    /\ outcome = "complete"
    /\ Len(Document) >= 2
    /\ TranslationOf(1) # TranslationOf(2)
    /\ outFileBefore.exists

\* C5: when the call for a line fails with a network error, no request is issued
\* for the lines after it, the translations obtained before it are discarded,
\* and the output file is neither created nor modified.
C5_NetworkErrorAbortsWithoutOutput ==
    outcome = "translate_error" =>
        /\ pc = "done"
        /\ respLog[Len(respLog)] \in NetErrors
        /\ Len(reqLog) = Len(respLog)
        /\ inflight = {}
        /\ translated_texts = <<>>
        /\ outFile = outFileBefore

\* C5 witness: the second call fails with lines left, after a translated first
\* line, with an output file of an earlier run.
C5_Witness ==
    /\ outcome = "translate_error"
    /\ Len(respLog) = 2
    /\ respLog[1] \in JsonBodies
    /\ Len(Document) > 2
    /\ outFileBefore.exists

\* A JSON body without the string at data.translations[0].translatedText.
LacksTranslatedText(body) == body \in {ErrorBody, NoTranslations, NumberText}

\* C6: a JSON response that lacks data.translations[0].translatedText gives
\* the empty translation for its line and does not end the run: the loop goes
\* on to the remaining lines, and the output has the line "<index>: " for it.
C6_MissingFieldGivesEmptyTranslation ==
    \A k \in DOMAIN respLog :
        LacksTranslatedText(respLog[k]) =>
            /\ outcome # "translate_error" => translated_texts[k] = <<k - 1, <<>>>>
            /\ k = Len(respLog) => outcome # "translate_error"
            /\ k < Len(Document) => (Len(reqLog) > k \/ CanSend)
            /\ outcome = "complete" =>
                  Lines(outFile.data)[k] = ToDecimal(k - 1) \o <<":", " ">>

\* C6 witness: a completed run in which an error object answered a line that is
\* not the last.
C6_Witness ==
    /\ outcome = "complete"
    /\ \E k \in DOMAIN respLog : respLog[k] = ErrorBody /\ k < Len(respLog)

OneLinePdf == pdf.status = "converted" /\ pdf.doc \in OneLinePdfs

\* C7, as claimed: for a one-line PDF whose text is s, the Document's only record
\* is (0, s).
C7_OneLinePdfGivesOneRecord ==
    (OneLinePdf /\ reader.result = "Ok") =>
        Document = << <<0, pdf.doc[1][1]>> >>

\* C7, amended: for a one-line PDF whose text is s, the Document is (0, s)
\* followed by the record (1, form feed) of the page break pdftotext ends the
\* page with, and get_content returns it.
C7_OneLinePdfGivesLineAndPageBreak ==
    (OneLinePdf /\ reader.result = "Ok") =>
        /\ Document = << <<0, pdf.doc[1][1]>>, <<1, <<FF>>>> >>
        /\ get_content(reader) = Document

\* C7 witness: a one-line PDF has been extracted.
C7_Witness ==
    /\ OneLinePdf
    /\ reader.result = "Ok"
    /\ pc = "new_done"

\* C8, as claimed: in each of the three cases (pdftotext cannot be spawned, its
\* output is not UTF-8, the sibling .txt cannot be read) PdfReader::new returns
\* an Err value.
C8_ExtractorFailuresAreErrValues ==
    (pdf.status \in {"spawn_error", "not_utf8"} \/ reader.read = "failed") =>
        reader.result = "Err"

\* C9, as claimed: every request of a run carries the language codes given
\* with --source and --target, and "en" and "sv" when they are not given.
C9_RequestsCarryTheFlags ==
    \A i \in DOMAIN reqLog :
        /\ reqLog[i].source = clap_parse(cli).source
        /\ reqLog[i].target = clap_parse(cli).target

\* C10: one request per line, in increasing line order; a request is sent only
\* after the response to the one before it: at most one request is outstanding
\* at any time and no line is requested twice.
C10_OneSequentialRequestPerLine ==
    /\ Cardinality(inflight) <= 1
    /\ Len(reqLog) - Len(respLog) = Cardinality(inflight)
    /\ \A i \in DOMAIN reqLog :
          /\ reqLog[i].line_number = i - 1
          /\ reqLog[i].q = Document[i][2]
    /\ Len(reqLog) <= Len(Document)
    /\ (pc = "done" /\ outcome # "panic" /\ NoCallFailed) =>
          Len(reqLog) = Len(Document)

\* C10 witness: the third request is outstanding after two responses.
C10_Witness ==
    /\ pc = "await"
    /\ Len(reqLog) = 3
    /\ Len(respLog) = 2
    /\ inflight = {2}

----------------------------------------------------------------------------
(* Properties of the Dependency Installer (Spec) *)

\* install() has been entered: a package manager has been looked for.
InstallAttempted == pc = "install_which" \/ inst.probes # <<>>

\* C11, as claimed: detection has two outcomes: when the tool is not found
\* present (the version probe cannot be run, or runs without naming Poppler)
\* an installation is attempted; when it is present none is, and run returns Ok.
C11_AbsentAlwaysInstalls ==
    /\ inst.probe \in {"spawn_error", "other"} => InstallAttempted
    /\ inst.probe = "poppler" =>
          /\ ~InstallAttempted
          /\ ~inst.prompted
          /\ ~inst.installed
          /\ inst.result = "Ok"

\* C12: on Linux the managers are probed in the order apt, yum, pacman; the
\* first present one is used and no later one is probed; when none is present
\* install fails with "No package manager is installed", with no password
\* prompt and no install command.
C12_FirstPresentManagerInOrder ==
    /\ Len(inst.probes) <= 3
    /\ \A i \in DOMAIN inst.probes :
          /\ inst.probes[i].manager = <<"apt", "yum", "pacman">>[i]
          /\ i < Len(inst.probes) => inst.probes[i].answer = "not_found"
    /\ inst.manager # "" =>
          /\ inst.probes[Len(inst.probes)] = Probed(inst.manager, "found")
          /\ pc # "install_which"
    /\ (inst.prompted \/ inst.installed) => inst.manager # ""
    /\ inst.installed => inst.prompted
    /\ (Len(inst.probes) = 3 /\ inst.probes[3].answer = "not_found") =>
          /\ inst.result = "Err"
          /\ inst.error = "No package manager is installed"
          /\ inst.manager = ""
          /\ ~inst.prompted
          /\ ~inst.installed

\* C12 witness: apt is absent and yum present: yum is used, pacman not probed.
C12_Witness ==
    /\ inst.manager = "yum"
    /\ Len(inst.probes) = 2
    /\ inst.installed

----------------------------------------------------------------------------
(* Properties of the credentials in a translation run (Spec) *)

\* The configuration as Config::load finds it in the file the process started
\* with.
Loaded == load(configFileBefore, TRUE)

\* translate_text has been entered and is past its Config::load.
PastLoad == pc \in {"loop", "await"} \/ outcome \in {"complete", "translate_error"}

\* C13: the credentials are loaded exactly once, after extraction and before
\* the first request; every request carries the loaded api key, bearer token
\* and project id; the run never writes the configuration file; when the load
\* fails (missing or malformed file) no request is issued and the output file
\* is neither created nor modified.
C13_CredentialsLoadedOnceAndCarried ==
    /\ Len(loads) <= 1
    /\ loads # <<>> => reader.result = "Ok" /\ pc # "translate_load"
    /\ PastLoad => loads = <<TRUE>>
    /\ reqLog # <<>> => loads = <<TRUE>>
    /\ loads = <<TRUE>> =>
          /\ Loaded.ok
          /\ config = Loaded.val
          /\ \A i \in DOMAIN reqLog :
                /\ reqLog[i].key = Loaded.val.api_key
                /\ reqLog[i].Authorization = <<"Bearer ", Loaded.val.access_token>>
                /\ reqLog[i].project = Loaded.val.project_id
    /\ configFile = configFileBefore
    /\ (loads = <<FALSE>> \/ ~Loaded.ok) =>
          /\ reqLog = <<>>
          /\ inflight = {}
          /\ outFile = outFileBefore
          /\ ~PastLoad
    /\ loads = <<FALSE>> => outcome = "panic"

\* C13 witness: two requests have been sent with the stored credentials.
C13_Witness ==
    /\ loads = <<TRUE>>
    /\ Len(reqLog) = 2
    /\ reqLog[2].key = "key"
    /\ reqLog[2].project = "proj"

----------------------------------------------------------------------------
(* Properties of the Document (Spec) *)

\* The number of newline-delimited records of a text: one per line ending, and
\* one more for a last line that has no line ending.
RecordCount(s) ==
    Cardinality({i \in DOMAIN s : s[i] = LF})
    + (IF s # <<>> /\ s[Len(s)] # LF THEN 1 ELSE 0)

\* The positions of a text that belong to records: not the CR of a CR LF, and
\* not the line ending of the last line.
RecordPositions(s) ==
    {i \in DOMAIN s : /\ ~(s[i] = CR /\ i < Len(s) /\ s[i + 1] = LF)
                      /\ ~(s[i] = LF /\ i = Len(s))}

\* The text with every line ending written as LF and none after the last line.
RecordText(s) ==
    LET keep == RecordPositions(s)
        at(k) == CHOOSE i \in keep : Cardinality({j \in keep : j < i}) = k - 1
    IN  [k \in 1..Cardinality(keep) |-> s[at(k)]]

\* The records of a Document joined by LF.
JoinRecords(doc) ==
    Flatten([k \in DOMAIN doc |-> IF k = 1 THEN doc[k][2] ELSE <<LF>> \o doc[k][2]])

\* program::run has taken its copy of the Document.
ContentTaken == pc \in {"translate_load", "loop", "await"} \/ loads # <<>>

\* C14: the Document read from a text of n newline-delimited records (line
\* ending LF or CR LF, optional after the last) is exactly those n records in
\* order, each with its zero-based position as index, none dropped, merged,
\* duplicated or reordered; get_content gives an equal copy and the stored
\* Document stays as it was read.
C14_DocumentIsTheRecordsInOrder ==
    reader.read = "ok" =>
       /\ Len(reader.content) = RecordCount(txtFile.data)
       /\ \A k \in DOMAIN reader.content :
             /\ reader.content[k][1] = k - 1
             /\ \A i \in DOMAIN reader.content[k][2] : reader.content[k][2][i] # LF
       /\ JoinRecords(reader.content) = RecordText(txtFile.data)
       /\ ContentTaken => request.formatted_content = reader.content

\* C14 witness: a text of an empty record and a record "a" has been read and
\* copied into the request.
C14_Witness ==
    /\ reader.read = "ok"
    /\ txtFile.data = <<LF, "a">>
    /\ reader.content = <<<<0, <<>>>>, <<1, <<"a">>>>>>
    /\ ContentTaken

----------------------------------------------------------------------------
(* Properties of PdfReader::new (Spec) *)

\* install::run has returned to PdfReader::new, with Ok or with Err.
InstallerReturned == inst.result \in {"Ok", "Err"}

\* pdftotext has been invoked.
PdftotextInvoked == pdf.status # "none"

\* C15: the installer's outcome never gates extraction: once install::run has
\* returned, with Ok or with Err, PdfReader::new invokes pdftotext, and reads
\* the sibling text file when read_pdf returned Ok; pdftotext is not invoked
\* before the installer returned; PdfReader::new returns Err only for a
\* pdftotext that cannot be spawned or a text file that cannot be read.
C15_InstallerNeverGatesExtraction ==
    /\ InstallerReturned => (pc = "read_pdf" \/ PdftotextInvoked)
    /\ PdftotextInvoked => InstallerReturned
    /\ pdf.status \in {"failed", "converted"} =>
          (pc = "read_file" \/ reader.read # "none")
    /\ reader.result = "Err" =>
          (pdf.status = "spawn_error" \/ reader.read = "failed")
    /\ (pc = "new_done" /\ pdf.status \in {"failed", "converted"}
          /\ reader.read = "ok") => reader.result = "Ok"

\* C15 witness: the installer returned Err, and PdfReader::new went on to
\* convert, read the text file and return Ok.
C15_Witness ==
    /\ inst.result = "Err"
    /\ pdf.status = "converted"
    /\ reader.read = "ok"
    /\ reader.result = "Ok"

====
